---------------------------- MODULE Spec2Model ----------------------------
(***************************************************************************)
(* Model of the coordinate-to-domain placement service of                  *)
(* src/explorations/explore_api.py: the module-level registry              *)
(* (coordinates_map, assigned_domains), its JSON file, the neighbour query *)
(* _get_related_embeddings and the two endpoints /seed and /coordinates.   *)
(*                                                                         *)
(* Domains are numbered: the number 0 stands for the string "google.com",  *)
(* every other number for some other host name.  A key of coordinates_map  *)
(* is the string f"{x},{y}", modelled as the sequence of its characters.   *)
(* An embedding is a direction in the plane, given as an angle in units of *)
(* 1/AngleUnits of a full turn: the cosine distance of two directions      *)
(* grows with the angle between them.                                      *)
(***************************************************************************)
EXTENDS Integers, Sequences, FiniteSets, TLC

VARIABLES
    domains,            \* list of domain names, loaded from top_sites.db
    embeddings,         \* one embedding per entry of domains
    nn_model,           \* the fitted index: per item, all items by distance
    coordinates_map,    \* ordered dict: sequence of [key, domain]
    assigned_domains,   \* set of domains
    file,               \* coordinates_map.json
    response,           \* what the last serial call did and returned
    threads,            \* the requests in flight (concurrent executions)
    related,            \* the last direct call of _get_related_embeddings
    returned            \* history: what the calls so far have returned

vars == <<domains, embeddings, nn_model, coordinates_map, assigned_domains,
          file, response, threads, related, returned>>

store == <<domains, embeddings, nn_model>>

(***************************************************************************)
(* Bounds of the model and constants of the program.                       *)
(***************************************************************************)
NumDomains == 7

AngleUnits == 16

\* direct calls of _get_related_embeddings: the longest list of input
\* domains, the largest top_n besides the endpoints' own, and the most blocks
\* of the registry the call finds
MaxSeeds == 2

MaxTopN == 2

MaxSaved == 2

\* concurrent executions: the requests one thread serves
MaxCalls == 2

top_n_default == 5

seed_domain == 0

Range(s) == {s[i] : i \in 1..Len(s)}

Abs(n) == IF n < 0 THEN -n ELSE n

\* the coordinates the requests are drawn from
Xs == {0 - 1, 0}

Ys == {0, 1}

(***************************************************************************)
(* key = f"{x},{y}" and bx, by = map(int, key.split(','))                  *)
(***************************************************************************)
DigitChars == <<"0", "1", "2", "3", "4", "5", "6", "7", "8", "9">>

RECURSIVE NatStr(_)
NatStr(n) ==
    IF n < 10 THEN <<DigitChars[n + 1]>>
    ELSE NatStr(n \div 10) \o <<DigitChars[(n % 10) + 1]>>

IntStr(n) == IF n < 0 THEN <<"-">> \o NatStr(-n) ELSE NatStr(n)

FormatKey(x, y) == IntStr(x) \o <<",">> \o IntStr(y)

DigitVal(c) == CHOOSE d \in 0..9 : DigitChars[d + 1] = c

RECURSIVE StrNat(_)
StrNat(s) ==
    IF Len(s) = 1 THEN DigitVal(s[1])
    ELSE 10 * StrNat(SubSeq(s, 1, Len(s) - 1)) + DigitVal(s[Len(s)])

StrInt(s) == IF s[1] = "-" THEN -StrNat(Tail(s)) ELSE StrNat(s)

\* key.split(','): the parts between the commas
RECURSIVE Split(_, _)
Split(s, cur) ==
    IF s = <<>> THEN <<cur>>
    ELSE IF Head(s) = "," THEN <<cur>> \o Split(Tail(s), <<>>)
    ELSE Split(Tail(s), Append(cur, Head(s)))

ParseKey(key) ==
    LET parts == Split(key, <<>>)
    IN  <<StrInt(parts[1]), StrInt(parts[2])>>

(***************************************************************************)
(* The dict coordinates_map: insertion ordered.                            *)
(***************************************************************************)
Keys(map) == [i \in 1..Len(map) |-> map[i].key]

Values(map) == {map[i].domain : i \in 1..Len(map)}

\* mutant: the membership test never finds the key
HasKeyNever(map, key) == FALSE

HasKey(map, key) == \E i \in 1..Len(map) : map[i].key = key

Get(map, key) == map[CHOOSE i \in 1..Len(map) : map[i].key = key].domain

\* map[key] = domain: a present key keeps its place, a new one goes last
DictSet(map, key, domain) ==
    IF HasKey(map, key)
    THEN [i \in 1..Len(map) |->
            IF map[i].key = key THEN [key |-> key, domain |-> domain]
            ELSE map[i]]
    ELSE Append(map, [key |-> key, domain |-> domain])

(***************************************************************************)
(* coordinates_map.json: json.dump writes the items in dict order,         *)
(* json.load reads them back in file order.  A file is valid when its text *)
(* is one JSON object; size is the length of its text, counted in items.   *)
(***************************************************************************)
NoFile == [exists |-> FALSE, valid |-> FALSE, items |-> <<>>, size |-> 0]

\* mutant: the items are written in another order than the dict's
JsonDumpReversed(map) ==
    [exists |-> TRUE, valid |-> TRUE,
     items |-> [i \in 1..Len(map) |->
                  <<map[Len(map) + 1 - i].key, map[Len(map) + 1 - i].domain>>],
     size |-> Len(map)]

JsonDump(map) ==
    [exists |-> TRUE, valid |-> TRUE,
     items |-> [i \in 1..Len(map) |-> <<map[i].key, map[i].domain>>],
     size |-> Len(map)]

\* open('coordinates_map.json', 'w'): the file is there and empty
OpenTruncate == [exists |-> TRUE, valid |-> FALSE, items |-> <<>>, size |-> 0]

\* the buffered text goes to the start of the file when the handle is
\* closed: a longer text that another handle wrote keeps its end
FlushAtStart(f, buffer) ==
    IF f.size > buffer.size
    THEN [exists |-> TRUE, valid |-> FALSE, items |-> <<>>, size |-> f.size]
    ELSE buffer

\* mutant: only the first item of the file is loaded
JsonLoadFirst(items, map) ==
    IF items = <<>> THEN map
    ELSE DictSet(map, Head(items)[1], Head(items)[2])

RECURSIVE JsonLoadItems(_, _)
JsonLoadItems(items, map) ==
    IF items = <<>> THEN map
    ELSE JsonLoadItems(Tail(items), DictSet(map, Head(items)[1], Head(items)[2]))

\* mutant: the startup does not read the file
LoadMapNothing(f) == <<>>

\* lines 48-58: the map of the file, or the empty map when there is no file
LoadMap(f) == IF f.exists THEN JsonLoadItems(f.items, <<>>) ELSE <<>>

\* mutant: the startup does not rebuild the set
LoadAssignedNothing(map) == {}

LoadAssigned(map) == Values(map)

(***************************************************************************)
(* The nearest-neighbour index: NearestNeighbors(metric='cosine',          *)
(* algorithm='brute') fitted on embeddings.  Items at the same distance    *)
(* come in an order the library fixes; tie is that order (by rising or by  *)
(* falling index).                                                         *)
(***************************************************************************)
CosineDistance(a, b) ==
    LET d == Abs(a - b) % AngleUnits
    IN  IF d <= AngleUnits - d THEN d ELSE AngleUnits - d

SortKey(emb, tie, i, j) ==
    CosineDistance(emb[i], emb[j]) * (Len(emb) + 1)
        + (IF tie = "rising" THEN j ELSE Len(emb) + 1 - j)

\* all items, nearest to item i first
Ranking(emb, tie, i) ==
    [p \in 1..Len(emb) |->
        CHOOSE j \in 1..Len(emb) :
            Cardinality({k \in 1..Len(emb) :
                SortKey(emb, tie, i, k) < SortKey(emb, tie, i, j)}) = p - 1]

Fit(emb, tie) == [i \in 1..Len(emb) |-> Ranking(emb, tie, i)]

Raised == [ok |-> FALSE, rows |-> <<>>, list |-> <<>>]

\* mutant: the index serves as many neighbours as it has when asked for more
KNeighborsClamped(model, indices, n_neighbors) ==
    IF indices = <<>> \/ n_neighbors <= 0
    THEN Raised
    ELSE [ok |-> TRUE,
          rows |-> [r \in 1..Len(indices) |->
                        SubSeq(model[indices[r]], 1,
                               IF n_neighbors > Len(model) THEN Len(model)
                               ELSE n_neighbors)],
          list |-> <<>>]

\* mutant: the index returns the items farthest away
KNeighborsFarthest(model, indices, n_neighbors) ==
    IF indices = <<>> \/ n_neighbors <= 0 \/ n_neighbors > Len(model)
    THEN Raised
    ELSE [ok |-> TRUE,
          rows |-> [r \in 1..Len(indices) |->
                        [k \in 1..n_neighbors |->
                            model[indices[r]][Len(model) + 1 - k]]],
          list |-> <<>>]

\* nn_model.kneighbors(X, n_neighbors): ValueError for an empty X and for
\* n_neighbors outside 1..n_samples_fit
KNeighbors(model, indices, n_neighbors) ==
    IF indices = <<>> \/ n_neighbors <= 0 \/ n_neighbors > Len(model)
    THEN Raised
    ELSE [ok |-> TRUE,
          rows |-> [r \in 1..Len(indices) |->
                        SubSeq(model[indices[r]], 1, n_neighbors)],
          list |-> <<>>]

(***************************************************************************)
(* _get_related_embeddings, lines 66-90.                                   *)
(***************************************************************************)
\* line 68: a name that occurs twice maps to its last index
DomainToIndex(doms, d) ==
    CHOOSE i \in 1..Len(doms) :
        doms[i] = d /\ \A k \in 1..Len(doms) : doms[k] = d => k <= i

\* lines 70-73
RECURSIVE InputIndices(_, _)
InputIndices(doms, input_domains) ==
    IF input_domains = <<>> THEN <<>>
    ELSE (IF Head(input_domains) \in Range(doms)
          THEN <<DomainToIndex(doms, Head(input_domains))>> ELSE <<>>)
         \o InputIndices(doms, Tail(input_domains))

\* lines 75-76
QueryNeighbors(input_domains, top_n, doms, model, n_assigned) ==
    KNeighbors(model, InputIndices(doms, input_domains),
               top_n + Len(input_domains) + n_assigned)

\* mutant: a neighbour that is assigned already is taken too
EligibleAssignedToo(d, input_domains, related_domains, assigned) ==
    /\ d \notin Range(input_domains)
    /\ d \notin Range(related_domains)

\* line 85
Eligible(d, input_domains, related_domains, assigned) ==
    /\ d \notin Range(input_domains)
    /\ d \notin Range(related_domains)
    /\ d \notin assigned

\* lines 82-88: one row of neighbours, left at the break
RECURSIVE ScanRow(_, _, _, _, _, _, _)
ScanRow(row, j, related_domains, input_domains, top_n, doms, assigned) ==
    IF j > Len(row) THEN related_domains
    ELSE LET neighbor_domain == doms[row[j]]
             appended ==
                 IF Eligible(neighbor_domain, input_domains, related_domains,
                             assigned)
                 THEN Append(related_domains, neighbor_domain)
                 ELSE related_domains
         IN  IF Len(appended) >= top_n THEN appended
             ELSE ScanRow(row, j + 1, appended, input_domains, top_n, doms,
                          assigned)

\* lines 78-90: neighbors[i] is an IndexError when an input domain was unknown
RECURSIVE FilterNeighbors(_, _, _, _, _, _, _)
FilterNeighbors(rows, i, related_domains, input_domains, top_n, doms, assigned) ==
    IF i > Len(input_domains)
    THEN [ok |-> TRUE, rows |-> <<>>, list |-> related_domains]
    ELSE IF i > Len(rows) THEN Raised
    ELSE FilterNeighbors(rows, i + 1,
             ScanRow(rows[i], 1, related_domains, input_domains, top_n, doms,
                     assigned),
             input_domains, top_n, doms, assigned)

GetRelatedEmbeddings(input_domains, top_n, doms, model, assigned) ==
    LET nb == QueryNeighbors(input_domains, top_n, doms, model,
                             Cardinality(assigned))
    IN  IF ~nb.ok THEN Raised
        ELSE FilterNeighbors(nb.rows, 1, <<>>, input_domains, top_n, doms,
                             assigned)

(***************************************************************************)
(* generate_new_block, lines 92-124.                                       *)
(***************************************************************************)
NoKey == <<>>

\* mutant: distance <= min_distance, the last of several nearest blocks wins
RECURSIVE NearestLoopLast(_, _, _, _, _, _)
NearestLoopLast(map, i, source_x, source_y, min_distance, nearest_block_key) ==
    IF i > Len(map) THEN nearest_block_key
    ELSE LET b == ParseKey(map[i].key)
             distance == Abs(b[1] - source_x) + Abs(b[2] - source_y)
         IN  IF min_distance = <<>> \/ distance <= min_distance[1]
             THEN NearestLoopLast(map, i + 1, source_x, source_y,
                                  <<distance>>, map[i].key)
             ELSE NearestLoopLast(map, i + 1, source_x, source_y,
                                  min_distance, nearest_block_key)

\* lines 94-101; min_distance is <<>> for float('inf')
RECURSIVE NearestLoop(_, _, _, _, _, _)
NearestLoop(map, i, source_x, source_y, min_distance, nearest_block_key) ==
    IF i > Len(map) THEN nearest_block_key
    ELSE LET b == ParseKey(map[i].key)
             distance == Abs(b[1] - source_x) + Abs(b[2] - source_y)
         IN  IF min_distance = <<>> \/ distance < min_distance[1]
             THEN NearestLoop(map, i + 1, source_x, source_y, <<distance>>,
                              map[i].key)
             ELSE NearestLoop(map, i + 1, source_x, source_y, min_distance,
                              nearest_block_key)

NearestBlockKey(map, source_x, source_y) ==
    NearestLoop(map, 1, source_x, source_y, <<>>, NoKey)

\* lines 112 and 154
RECURSIVE AvailableDomains(_, _)
AvailableDomains(related_domains, assigned) ==
    IF related_domains = <<>> THEN <<>>
    ELSE (IF Head(related_domains) \notin assigned
          THEN <<Head(related_domains)>> ELSE <<>>)
         \o AvailableDomains(Tail(related_domains), assigned)

\* mutant: the map is replaced by the new entry
SetBlockAlone(map, key, selected_domain) ==
    <<[key |-> key, domain |-> selected_domain]>>

\* mutant: the new entry takes the place of the last one
SetBlockOverLast(map, key, selected_domain) ==
    IF map = <<>> THEN <<[key |-> key, domain |-> selected_domain]>>
    ELSE [map EXCEPT ![Len(map)] = [key |-> key, domain |-> selected_domain]]

\* lines 117 and 159
SetBlock(map, key, selected_domain) == DictSet(map, key, selected_domain)

\* mutant: the selected domain is not added to the set
AddAssignedSkipped(assigned, selected_domain) == assigned

\* lines 118 and 160
AddAssigned(assigned, selected_domain) == assigned \cup {selected_domain}

\* mutant: only the new entry is written to the file
SaveMapLast(map) ==
    FlushAtStart(OpenTruncate, JsonDump(<<map[Len(map)]>>))

\* lines 121-122 and 163-164
SaveMap(map) == FlushAtStart(OpenTruncate, JsonDump(map))

(***************************************************************************)
(* The state after the module is loaded.                                   *)
(***************************************************************************)
NoDomain == 0 - 1

NoResponse ==
    [op |-> "none", key |-> NoKey, source |-> <<>>, status |-> 0,
     detail |-> "", domain |-> NoDomain, nearest |-> NoKey]

NotCalled ==
    [called |-> FALSE, input_domains |-> <<>>, top_n |-> 0, ok |-> FALSE,
     list |-> <<>>]

\* load_domains(): the rows of top_sites, with or without google.com, and
\* with a host name that occurs in two rows
DomainLists ==
    { [i \in 1..NumDomains |-> i - 1],
      [i \in 1..NumDomains |-> i],
      [i \in 1..NumDomains |-> IF i = NumDomains THEN 1 ELSE i - 1],
      [i \in 1..NumDomains |-> IF i = 1 THEN 1 ELSE 0] }

\* embeddings.pkl: directions next to each other, and directions of which
\* some coincide
EmbeddingLists ==
    << [i \in 1..NumDomains |-> i],
       [i \in 1..NumDomains |-> (i * i) % AngleUnits] >>

\* the order in which the index of each list returns items at one distance
TieOrders == <<"rising", "falling">>

Init ==
    /\ domains \in DomainLists
    /\ \E e \in 1..Len(EmbeddingLists) :
          /\ embeddings = EmbeddingLists[e]
          /\ nn_model = Fit(embeddings, TieOrders[e])
    /\ coordinates_map = LoadMap(NoFile)
    /\ assigned_domains = LoadAssigned(coordinates_map)
    /\ file = NoFile
    /\ response = NoResponse
    /\ threads = <<>>
    /\ related = NotCalled
    /\ returned = {}

(***************************************************************************)
(* The endpoints, one call at a time.                                      *)
(***************************************************************************)
Respond(op, key, source, status, detail, domain, nearest) ==
    response' = [op |-> op, key |-> key, source |-> source,
                 status |-> status, detail |-> detail, domain |-> domain,
                 nearest |-> nearest]

\* mutant: the coordinate is written before the candidates are looked at,
\* with the domain the query started from
AllocateWriteFirst(op, key, source, nearest, from_domain) ==
    LET r == GetRelatedEmbeddings(<<from_domain>>, top_n_default, domains,
                                  nn_model, assigned_domains)
        available_domains == AvailableDomains(r.list, assigned_domains)
    IN  IF ~r.ok
        THEN /\ Respond(op, key, source, 500, "error", NoDomain, nearest)
             /\ UNCHANGED <<coordinates_map, assigned_domains, file>>
        ELSE IF available_domains = <<>>
        THEN /\ Respond(op, key, source, 400, "not_enough", NoDomain, nearest)
             /\ coordinates_map' = SetBlock(coordinates_map, key, from_domain)
             /\ UNCHANGED <<assigned_domains, file>>
        ELSE \E selected_domain \in Range(available_domains) :
                /\ coordinates_map' =
                       SetBlock(coordinates_map, key, selected_domain)
                /\ assigned_domains' =
                       AddAssigned(assigned_domains, selected_domain)
                /\ file' = SaveMap(coordinates_map')
                /\ Respond(op, key, source, 200, "new", selected_domain,
                           nearest)

\* mutant: the file is opened for writing before the query is made
AllocateOpenFirst(op, key, source, nearest, from_domain) ==
    LET r == GetRelatedEmbeddings(<<from_domain>>, top_n_default, domains,
                                  nn_model, assigned_domains)
        available_domains == AvailableDomains(r.list, assigned_domains)
    IN  IF ~r.ok
        THEN /\ Respond(op, key, source, 500, "error", NoDomain, nearest)
             /\ file' = OpenTruncate
             /\ UNCHANGED <<coordinates_map, assigned_domains>>
        ELSE IF available_domains = <<>>
        THEN /\ Respond(op, key, source, 400, "not_enough", NoDomain, nearest)
             /\ UNCHANGED <<coordinates_map, assigned_domains, file>>
        ELSE \E selected_domain \in Range(available_domains) :
                /\ coordinates_map' =
                       SetBlock(coordinates_map, key, selected_domain)
                /\ assigned_domains' =
                       AddAssigned(assigned_domains, selected_domain)
                /\ file' = SaveMap(coordinates_map')
                /\ Respond(op, key, source, 200, "new", selected_domain,
                           nearest)

\* lines 109-124 and 151-166: query, select, assign, save, return
Allocate(op, key, source, nearest, from_domain) ==
    LET r == GetRelatedEmbeddings(<<from_domain>>, top_n_default, domains,
                                  nn_model, assigned_domains)
        available_domains == AvailableDomains(r.list, assigned_domains)
    IN  IF ~r.ok
        THEN /\ Respond(op, key, source, 500, "error", NoDomain, nearest)
             /\ UNCHANGED <<coordinates_map, assigned_domains, file>>
        ELSE IF available_domains = <<>>
        THEN /\ Respond(op, key, source, 400, "not_enough", NoDomain, nearest)
             /\ UNCHANGED <<coordinates_map, assigned_domains, file>>
        ELSE \E selected_domain \in Range(available_domains) :
                /\ coordinates_map' =
                       SetBlock(coordinates_map, key, selected_domain)
                /\ assigned_domains' =
                       AddAssigned(assigned_domains, selected_domain)
                /\ file' = SaveMap(coordinates_map')
                /\ Respond(op, key, source, 200, "new", selected_domain,
                           nearest)

\* mutant: with no block to start from, the seed domain is used
GenerateNewBlockFromSeed(x, y, source_x, source_y) ==
    LET nearest_block_key ==
            NearestBlockKey(coordinates_map, source_x, source_y)
        key == FormatKey(x, y)
    IN  Allocate("coordinates", key, <<source_x, source_y>>,
                 nearest_block_key,
                 IF nearest_block_key = NoKey THEN seed_domain
                 ELSE Get(coordinates_map, nearest_block_key))

\* lines 92-124
GenerateNewBlock(x, y, source_x, source_y) ==
    LET nearest_block_key ==
            NearestBlockKey(coordinates_map, source_x, source_y)
        key == FormatKey(x, y)
    IN  IF nearest_block_key = NoKey
        THEN /\ Respond("coordinates", key, <<source_x, source_y>>, 400,
                        "no_blocks", NoDomain, NoKey)
             /\ UNCHANGED <<coordinates_map, assigned_domains, file>>
        ELSE Allocate("coordinates", key, <<source_x, source_y>>,
                      nearest_block_key,
                      Get(coordinates_map, nearest_block_key))

\* mutant: the key is not looked up, every call generates a block
GetCoordinatesAlwaysNew(x, y, source_x, source_y) ==
    /\ GenerateNewBlock(x, y, source_x, source_y)
    /\ related' = NotCalled
    /\ UNCHANGED <<store, threads>>

\* lines 126-137
GetCoordinates(x, y, source_x, source_y) ==
    LET key == FormatKey(x, y)
    IN  /\ IF HasKey(coordinates_map, key)
           THEN /\ Respond("coordinates", key, <<>>, 200, "existing",
                           Get(coordinates_map, key), NoKey)
                /\ UNCHANGED <<coordinates_map, assigned_domains, file>>
           ELSE GenerateNewBlock(x, y, source_x, source_y)
        /\ related' = NotCalled
        /\ UNCHANGED <<store, threads>>

\* mutant: the seed domain is not looked up in the domain list
SeedInitialBlockUnchecked ==
    LET key == FormatKey(0, 0)
    IN  /\ IF HasKey(coordinates_map, key)
           THEN /\ Respond("seed", key, <<>>, 200, "existing",
                           Get(coordinates_map, key), NoKey)
                /\ UNCHANGED <<coordinates_map, assigned_domains, file>>
           ELSE Allocate("seed", key, <<>>, NoKey, seed_domain)
        /\ related' = NotCalled
        /\ UNCHANGED <<store, threads>>

\* mutant: the first block is put at another coordinate
SeedInitialBlockElsewhere ==
    LET key == FormatKey(0, 1)
    IN  /\ IF seed_domain \notin Range(domains)
           THEN /\ Respond("seed", key, <<>>, 400, "seed_not_found",
                           NoDomain, NoKey)
                /\ UNCHANGED <<coordinates_map, assigned_domains, file>>
           ELSE IF HasKey(coordinates_map, key)
           THEN /\ Respond("seed", key, <<>>, 200, "existing",
                           Get(coordinates_map, key), NoKey)
                /\ UNCHANGED <<coordinates_map, assigned_domains, file>>
           ELSE Allocate("seed", key, <<>>, NoKey, seed_domain)
        /\ related' = NotCalled
        /\ UNCHANGED <<store, threads>>

\* lines 139-166
SeedInitialBlock ==
    LET key == FormatKey(0, 0)
    IN  /\ IF seed_domain \notin Range(domains)
           THEN /\ Respond("seed", key, <<>>, 400, "seed_not_found",
                           NoDomain, NoKey)
                /\ UNCHANGED <<coordinates_map, assigned_domains, file>>
           ELSE IF HasKey(coordinates_map, key)
           THEN /\ Respond("seed", key, <<>>, 200, "existing",
                           Get(coordinates_map, key), NoKey)
                /\ UNCHANGED <<coordinates_map, assigned_domains, file>>
           ELSE Allocate("seed", key, <<>>, NoKey, seed_domain)
        /\ related' = NotCalled
        /\ UNCHANGED <<store, threads>>

\* lines 47-58, run again: the process is stopped between two calls and
\* started anew.  Only FileNotFoundError is caught: a file that is not one
\* JSON object makes json.load raise, and the module is not loaded.
Restart ==
    /\ coordinates_map' = LoadMap(file)
    /\ assigned_domains' = LoadAssigned(coordinates_map')
    /\ IF file.exists /\ ~file.valid
       THEN Respond("restart", NoKey, <<>>, 500, "load_failed", NoDomain,
                    NoKey)
       ELSE Respond("restart", NoKey, <<>>, 0, "", NoDomain, NoKey)
    /\ related' = NotCalled
    /\ UNCHANGED <<store, file, threads>>

Next ==
    \/ SeedInitialBlock /\ UNCHANGED returned
    \/ \E x \in Xs, y \in Ys, source_x \in Xs, source_y \in Ys :
          GetCoordinates(x, y, source_x, source_y) /\ UNCHANGED returned
    \/ Restart /\ UNCHANGED returned

Spec == Init /\ [][Next]_vars

(***************************************************************************)
(* The same executions, with the record of every domain a call returned.   *)
(***************************************************************************)
Record ==
    returned' =
        IF response'.status = 200
        THEN returned \cup {<<response'.op, response'.key, response'.domain>>}
        ELSE returned

NextReturned ==
    \/ SeedInitialBlock /\ Record
    \/ \E x \in Xs, y \in Ys, source_x \in Xs, source_y \in Ys :
          GetCoordinates(x, y, source_x, source_y) /\ Record
    \/ Restart /\ Record

SpecReturned == Init /\ [][NextReturned]_vars

(***************************************************************************)
(* The same calls where the storage or the process fails: between line 116 *)
(* and line 124 (158 and 166) the open or the dump raises OSError, or the  *)
(* process dies before one of the lines.  A process that has died or that  *)
(* could not load its module serves no call until it is started again.     *)
(***************************************************************************)
WriteFaults == {"open_raises", "dump_raises"}

\* the line the process dies before
CrashPoints == {"l117", "l121", "l122", "l124"}

Up == response.detail \notin {"crashed", "load_failed"}

\* the file the fault leaves: untouched before the open, empty once it is
\* opened, complete once the with block is left
FileAfter(fault, f, map) ==
    IF fault \in {"open_raises", "l117", "l121"} THEN f
    ELSE IF fault \in {"dump_raises", "l122"} THEN OpenTruncate
    ELSE SaveMap(map)

\* lines 109-124 and 151-166 of a call that gets as far as the selection
AllocateFault(op, key, source, nearest, from_domain, fault) ==
    LET r == GetRelatedEmbeddings(<<from_domain>>, top_n_default, domains,
                                  nn_model, assigned_domains)
        available_domains == AvailableDomains(r.list, assigned_domains)
    IN  /\ r.ok
        /\ available_domains # <<>>
        /\ \E selected_domain \in Range(available_domains) :
              /\ coordinates_map' =
                     IF fault = "l117" THEN coordinates_map
                     ELSE SetBlock(coordinates_map, key, selected_domain)
              /\ assigned_domains' =
                     IF fault = "l117" THEN assigned_domains
                     ELSE AddAssigned(assigned_domains, selected_domain)
              /\ file' = FileAfter(fault, file, coordinates_map')
        /\ IF fault \in WriteFaults
           THEN Respond(op, key, source, 500, "write_failed", NoDomain,
                        nearest)
           ELSE Respond(op, key, source, 0, "crashed", NoDomain, nearest)

GetCoordinatesFault(x, y, source_x, source_y, fault) ==
    LET key == FormatKey(x, y)
        nearest_block_key ==
            NearestBlockKey(coordinates_map, source_x, source_y)
    IN  /\ ~HasKey(coordinates_map, key)
        /\ nearest_block_key # NoKey
        /\ AllocateFault("coordinates", key, <<source_x, source_y>>,
                         nearest_block_key,
                         Get(coordinates_map, nearest_block_key), fault)
        /\ related' = NotCalled
        /\ UNCHANGED <<store, threads>>

SeedInitialBlockFault(fault) ==
    LET key == FormatKey(0, 0)
    IN  /\ seed_domain \in Range(domains)
        /\ ~HasKey(coordinates_map, key)
        /\ AllocateFault("seed", key, <<>>, NoKey, seed_domain, fault)
        /\ related' = NotCalled
        /\ UNCHANGED <<store, threads>>

NextFaults ==
    \/ Up /\ SeedInitialBlock /\ UNCHANGED returned
    \/ \E x \in Xs, y \in Ys, source_x \in Xs, source_y \in Ys :
          Up /\ GetCoordinates(x, y, source_x, source_y)
             /\ UNCHANGED returned
    \/ Restart /\ UNCHANGED returned
    \/ \E fault \in WriteFaults \cup CrashPoints :
          Up /\ SeedInitialBlockFault(fault) /\ UNCHANGED returned
    \/ \E x \in Xs, y \in Ys, source_x \in Xs, source_y \in Ys :
          \E fault \in WriteFaults \cup CrashPoints :
             Up /\ GetCoordinatesFault(x, y, source_x, source_y, fault)
                /\ UNCHANGED returned

SpecFaults == Init /\ [][NextFaults]_vars

(***************************************************************************)
(* The endpoints run by the threads of the server's pool: the handlers are *)
(* plain functions, so two requests run at once and take their steps in    *)
(* any order.  A step is a statement of the handler; the loop that looks   *)
(* for the nearest block and the loop that filters the neighbours are one  *)
(* step each.                                                              *)
(***************************************************************************)
ThreadIds == {1, 2}

\* the coordinates of the concurrent requests
ConcTargets == {<<0 - 1, 0>>, <<0, 1>>}

ConcSources == {<<0, 0>>}

\* the domain lists of the concurrent executions: with and without
\* google.com, no name twice
ConcDomainLists ==
    { [i \in 1..NumDomains |-> i - 1], [i \in 1..NumDomains |-> i] }

Idle ==
    [pc |-> "idle", op |-> "none", key |-> NoKey, source |-> <<>>,
     nearest |-> NoKey, from_domain |-> NoDomain, neighbors |-> <<>>,
     related_domains |-> <<>>, available_domains |-> <<>>,
     selected_domain |-> NoDomain, buffer |-> NoFile, status |-> 0,
     detail |-> "", domain |-> NoDomain, calls |-> 0]

InitConc ==
    /\ domains \in ConcDomainLists
    /\ embeddings = EmbeddingLists[1]
    /\ nn_model = Fit(embeddings, TieOrders[1])
    /\ coordinates_map = LoadMap(NoFile)
    /\ assigned_domains = LoadAssigned(coordinates_map)
    /\ file = NoFile
    /\ response = NoResponse
    /\ threads = [t \in ThreadIds |-> Idle]
    /\ related = NotCalled
    /\ returned = {}

Frame == UNCHANGED <<store, response, related, returned>>

\* the handler returns or raises: its locals are gone
Finished(t, status, detail, domain) ==
    threads' = [threads EXCEPT ![t] =
        [Idle EXCEPT !.pc = "done", !.op = threads[t].op,
                     !.key = threads[t].key, !.status = status,
                     !.detail = detail, !.domain = domain,
                     !.calls = threads[t].calls]]

Goto(t, pc) == threads' = [threads EXCEPT ![t].pc = pc]

\* a request arrives for a free thread
StartCoordinates(t, target, source) ==
    /\ threads[t].pc \in {"idle", "done"}
    /\ threads[t].calls < MaxCalls
    /\ threads' = [threads EXCEPT ![t] =
          [Idle EXCEPT !.pc = "l132", !.op = "coordinates",
                       !.key = FormatKey(target[1], target[2]),
                       !.source = source,
                       !.calls = threads[t].calls + 1]]
    /\ UNCHANGED <<coordinates_map, assigned_domains, file>>
    /\ Frame

StartSeed(t) ==
    /\ threads[t].pc \in {"idle", "done"}
    /\ threads[t].calls < MaxCalls
    /\ threads' = [threads EXCEPT ![t] =
          [Idle EXCEPT !.pc = "l142", !.op = "seed",
                       !.key = FormatKey(0, 0),
                       !.calls = threads[t].calls + 1]]
    /\ UNCHANGED <<coordinates_map, assigned_domains, file>>
    /\ Frame

\* lines 132-133
L132(t) ==
    /\ threads[t].pc = "l132"
    /\ IF HasKey(coordinates_map, threads[t].key)
       THEN Finished(t, 200, "existing",
                     Get(coordinates_map, threads[t].key))
       ELSE Goto(t, "l94")
    /\ UNCHANGED <<coordinates_map, assigned_domains, file>>
    /\ Frame

\* lines 94-101
L94(t) ==
    /\ threads[t].pc = "l94"
    /\ threads' = [threads EXCEPT ![t].pc = "l103",
          ![t].nearest = NearestBlockKey(coordinates_map,
                             threads[t].source[1], threads[t].source[2])]
    /\ UNCHANGED <<coordinates_map, assigned_domains, file>>
    /\ Frame

\* lines 103-106
L103(t) ==
    /\ threads[t].pc = "l103"
    /\ IF threads[t].nearest = NoKey
       THEN Finished(t, 400, "no_blocks", NoDomain)
       ELSE threads' = [threads EXCEPT ![t].pc = "l76",
               ![t].from_domain = Get(coordinates_map, threads[t].nearest)]
    /\ UNCHANGED <<coordinates_map, assigned_domains, file>>
    /\ Frame

\* lines 142-143
L142(t) ==
    /\ threads[t].pc = "l142"
    /\ IF seed_domain \notin Range(domains)
       THEN Finished(t, 400, "seed_not_found", NoDomain)
       ELSE Goto(t, "l147")
    /\ UNCHANGED <<coordinates_map, assigned_domains, file>>
    /\ Frame

\* lines 147-148
L147(t) ==
    /\ threads[t].pc = "l147"
    /\ IF HasKey(coordinates_map, threads[t].key)
       THEN Finished(t, 200, "existing",
                     Get(coordinates_map, threads[t].key))
       ELSE threads' = [threads EXCEPT ![t].pc = "l76",
                                       ![t].from_domain = seed_domain]
    /\ UNCHANGED <<coordinates_map, assigned_domains, file>>
    /\ Frame

\* lines 68-76, called from line 109 or 151
L76(t) ==
    /\ threads[t].pc = "l76"
    /\ LET nb == QueryNeighbors(<<threads[t].from_domain>>, top_n_default,
                                domains, nn_model,
                                Cardinality(assigned_domains))
       IN  IF ~nb.ok THEN Finished(t, 500, "error", NoDomain)
           ELSE threads' = [threads EXCEPT ![t].pc = "l78",
                                           ![t].neighbors = nb.rows]
    /\ UNCHANGED <<coordinates_map, assigned_domains, file>>
    /\ Frame

\* lines 78-90
L78(t) ==
    /\ threads[t].pc = "l78"
    /\ LET r == FilterNeighbors(threads[t].neighbors, 1, <<>>,
                                <<threads[t].from_domain>>, top_n_default,
                                domains, assigned_domains)
       IN  IF ~r.ok THEN Finished(t, 500, "error", NoDomain)
           ELSE threads' = [threads EXCEPT ![t].pc = "l112",
                                           ![t].neighbors = <<>>,
                                           ![t].related_domains = r.list]
    /\ UNCHANGED <<coordinates_map, assigned_domains, file>>
    /\ Frame

\* lines 112-114 and 154-156
L112(t) ==
    /\ threads[t].pc = "l112"
    /\ LET available_domains ==
               AvailableDomains(threads[t].related_domains, assigned_domains)
       IN  IF available_domains = <<>>
           THEN Finished(t, 400, "not_enough", NoDomain)
           ELSE threads' = [threads EXCEPT ![t].pc = "l116",
                               ![t].related_domains = <<>>,
                               ![t].available_domains = available_domains]
    /\ UNCHANGED <<coordinates_map, assigned_domains, file>>
    /\ Frame

\* lines 116 and 158
L116(t) ==
    /\ threads[t].pc = "l116"
    /\ \E selected_domain \in Range(threads[t].available_domains) :
          threads' = [threads EXCEPT ![t].pc = "l117",
                                     ![t].available_domains = <<>>,
                                     ![t].selected_domain = selected_domain]
    /\ UNCHANGED <<coordinates_map, assigned_domains, file>>
    /\ Frame

\* lines 117 and 159
L117(t) ==
    /\ threads[t].pc = "l117"
    /\ coordinates_map' = SetBlock(coordinates_map, threads[t].key,
                                   threads[t].selected_domain)
    /\ Goto(t, "l118")
    /\ UNCHANGED <<assigned_domains, file>>
    /\ Frame

\* lines 118 and 160
L118(t) ==
    /\ threads[t].pc = "l118"
    /\ assigned_domains' =
          AddAssigned(assigned_domains, threads[t].selected_domain)
    /\ Goto(t, "l121")
    /\ UNCHANGED <<coordinates_map, file>>
    /\ Frame

\* lines 121 and 163: open
L121(t) ==
    /\ threads[t].pc = "l121"
    /\ file' = OpenTruncate
    /\ Goto(t, "l122")
    /\ UNCHANGED <<coordinates_map, assigned_domains>>
    /\ Frame

\* lines 122 and 164: json.dump into the buffer of the handle
L122(t) ==
    /\ threads[t].pc = "l122"
    /\ threads' = [threads EXCEPT ![t].pc = "close",
                                  ![t].buffer = JsonDump(coordinates_map)]
    /\ UNCHANGED <<coordinates_map, assigned_domains, file>>
    /\ Frame

\* the end of the with block: the handle is closed
Close(t) ==
    /\ threads[t].pc = "close"
    /\ file' = FlushAtStart(file, threads[t].buffer)
    /\ threads' = [threads EXCEPT ![t].pc = "l124", ![t].buffer = NoFile]
    /\ UNCHANGED <<coordinates_map, assigned_domains>>
    /\ Frame

\* lines 124 and 166
L124(t) ==
    /\ threads[t].pc = "l124"
    /\ Finished(t, 200, "new", threads[t].selected_domain)
    /\ UNCHANGED <<coordinates_map, assigned_domains, file>>
    /\ Frame

NextConc ==
    \E t \in ThreadIds :
        \/ \E target \in ConcTargets, source \in ConcSources :
              StartCoordinates(t, target, source)
        \/ StartSeed(t)
        \/ L132(t) \/ L94(t) \/ L103(t) \/ L142(t) \/ L147(t)
        \/ L76(t) \/ L78(t) \/ L112(t) \/ L116(t) \/ L117(t) \/ L118(t)
        \/ L121(t) \/ L122(t) \/ Close(t) \/ L124(t)

SpecConc == InitConc /\ [][NextConc]_vars

(***************************************************************************)
(* _get_related_embeddings called on its own: the registry is the one      *)
(* loaded from a coordinates_map.json that an earlier run has written, the *)
(* input domains and top_n are any.                                        *)
(***************************************************************************)
RECURSIVE SetToSeq(_)
SetToSeq(S) ==
    IF S = {} THEN <<>>
    ELSE LET m == CHOOSE e \in S : \A o \in S : e <= o
         IN  <<m>> \o SetToSeq(S \ {m})

SavedKeys ==
    <<FormatKey(0, 0), FormatKey(0 - 1, 0), FormatKey(0, 1),
      FormatKey(0 - 1, 1)>>

\* a file with the domains of S at the first coordinates of SavedKeys
SavedFile(S) ==
    [exists |-> TRUE, valid |-> TRUE,
     items |-> [i \in 1..Cardinality(S) |-> <<SavedKeys[i], SetToSeq(S)[i]>>],
     size |-> Cardinality(S)]

InitRelated ==
    /\ domains \in DomainLists
    /\ \E e \in 1..Len(EmbeddingLists) :
          /\ embeddings = EmbeddingLists[e]
          /\ nn_model = Fit(embeddings, TieOrders[e])
    /\ \E S \in SUBSET Range(domains) :
          /\ Cardinality(S) <= MaxSaved
          /\ file = (IF S = {} THEN NoFile ELSE SavedFile(S))
    /\ coordinates_map = LoadMap(file)
    /\ assigned_domains = LoadAssigned(coordinates_map)
    /\ response = NoResponse
    /\ threads = <<>>
    /\ related = NotCalled
    /\ returned = {}

InputNames == {0, 1, NumDomains}

InputLists ==
    UNION {[1..n -> InputNames] : n \in 1..MaxSeeds}

TopNs == 0..MaxTopN \cup {top_n_default}

RelatedCall(input_domains, top_n) ==
    LET r == GetRelatedEmbeddings(input_domains, top_n, domains, nn_model,
                                  assigned_domains)
    IN  /\ related' = [called |-> TRUE, input_domains |-> input_domains,
                       top_n |-> top_n, ok |-> r.ok, list |-> r.list]
        /\ UNCHANGED <<store, coordinates_map, assigned_domains, file,
                       response, threads, returned>>

NextRelated ==
    \E input_domains \in InputLists, top_n \in TopNs :
        RelatedCall(input_domains, top_n)

SpecRelated == InitRelated /\ [][NextRelated]_vars

(***************************************************************************)
(* The endpoints, one call at a time, in a process that found the          *)
(* coordinates_map.json of an earlier run at startup: the domain list of   *)
(* this run is any, the file holds domains of it.                          *)
(***************************************************************************)
SpecSaved == InitRelated /\ [][Next]_vars

(***************************************************************************)
(* Properties of the serial executions.                                    *)
(***************************************************************************)
RegistryUnchanged ==
    UNCHANGED <<coordinates_map, assigned_domains, file>>

\* C1: no domain is held by two distinct coordinates of coordinates_map.
DomainsUnique ==
    \A i, j \in 1..Len(coordinates_map) :
        coordinates_map[i].domain = coordinates_map[j].domain => i = j

\* two coordinates hold domains
TwoBlocksAssigned ==
    /\ Len(coordinates_map) >= 2
    /\ Cardinality(Range(Keys(coordinates_map))) >= 2

\* C2: all the /coordinates calls for one coordinate that returned a domain
\* returned the same domain.
SameDomainReturned ==
    \A p, q \in returned :
        (p[1] = "coordinates" /\ q[1] = "coordinates" /\ p[2] = q[2])
            => p[3] = q[3]

\* a /coordinates call for a coordinate that an earlier /coordinates call
\* resolved has just returned
ResolvedAgain ==
    /\ response.op = "coordinates"
    /\ response.detail = "existing"
    /\ response.key # FormatKey(0, 0)
    /\ <<"coordinates", response.key, response.domain>> \in returned

\* C3: in every step each assigned coordinate stays assigned to the domain it
\* has, so no coordinate is reassigned or removed.
AppendOnly ==
    [][\A i \in 1..Len(coordinates_map) :
          /\ HasKey(coordinates_map', coordinates_map[i].key)
          /\ Get(coordinates_map', coordinates_map[i].key)
                = coordinates_map[i].domain]_vars

\* a block was added to a registry that held one already
BlockAddedToBlocks ==
    /\ response.detail = "new"
    /\ response.op = "coordinates"
    /\ Len(coordinates_map) >= 2

\* C5: assigned_domains is the set of the values of coordinates_map, after
\* the load at startup and after every call, failed or not.
AssignedAreValues == assigned_domains = Values(coordinates_map)

\* the registry was loaded from a file that holds blocks
LoadedBlocks ==
    /\ response.op = "restart"
    /\ coordinates_map # <<>>
    /\ file.exists

\* C6: a /coordinates call on the empty registry answers 400, no block to
\* start from, and leaves the map, the set and the file as they were.
EmptyRegistryRefuses ==
    [][(response'.op = "coordinates" /\ coordinates_map = <<>>)
          => /\ response'.status = 400
             /\ response'.detail = "no_blocks"
             /\ response'.domain = NoDomain
             /\ RegistryUnchanged]_vars

\* such a call was refused
RefusedNoBlocks ==
    /\ response.op = "coordinates"
    /\ response.detail = "no_blocks"
    /\ coordinates_map = <<>>
    /\ ~file.exists

\* C7: once a /seed call has returned a domain, every /seed call returns that
\* domain and leaves the map, the set and the file as they were.
SeedAgainSame ==
    [][((\E r \in returned : r[1] = "seed") /\ response'.op = "seed")
          => /\ response'.status = 200
             /\ <<"seed", FormatKey(0, 0), response'.domain>> \in returned
             /\ RegistryUnchanged]_vars

\* /seed has returned the block it found, with other blocks assigned since
SeededTwice ==
    /\ response.op = "seed"
    /\ response.detail = "existing"
    /\ Len(coordinates_map) >= 2

\* C8: the block an allocation starts from is an assigned coordinate at the
\* least Manhattan distance from the source coordinate, and of several such
\* the one that comes first in the map.
Distance(key, source) ==
    Abs(ParseKey(key)[1] - source[1]) + Abs(ParseKey(key)[2] - source[2])

IsNearestFirst(map, source, key) ==
    \E i \in 1..Len(map) :
        /\ map[i].key = key
        /\ \A j \in 1..Len(map) :
              /\ Distance(map[j].key, source) >= Distance(key, source)
              /\ Distance(map[j].key, source) = Distance(key, source) => i <= j

NearestToSource ==
    [][(/\ response'.op = "coordinates"
        /\ response'.detail \in {"new", "not_enough", "error"})
          => IsNearestFirst(coordinates_map, response'.source,
                            response'.nearest)]_vars

\* an allocation started from the first of two blocks at the same distance
\* from the source
NearestOfTwo ==
    /\ response.op = "coordinates"
    /\ response.nearest # NoKey
    /\ \E i, j \in 1..Len(coordinates_map) :
          /\ i < j
          /\ coordinates_map[i].key = response.nearest
          /\ coordinates_map[j].key # response.key
          /\ Distance(coordinates_map[j].key, response.source)
                = Distance(response.nearest, response.source)

\* C11: a /seed or /coordinates call that fails for want of an unassigned
\* related domain leaves the map, the set and the file as they were.
NotEnoughLeavesRegistry ==
    [][(response'.detail = "not_enough")
          => /\ response'.status = 400
             /\ response'.domain = NoDomain
             /\ RegistryUnchanged]_vars

\* a call has failed for want of a candidate
RefusedNotEnough ==
    /\ response.op \in {"seed", "coordinates"}
    /\ response.status = 400
    /\ response.detail = "not_enough"

\* C13: when a call that allocated has returned, the file holds the whole
\* map: one entry for every assigned coordinate, with its domain.
FileHoldsMap ==
    (response.detail = "new") =>
        /\ file.exists /\ file.valid
        /\ Len(file.items) = Len(coordinates_map)
        /\ \A i \in 1..Len(coordinates_map) :
              <<coordinates_map[i].key, coordinates_map[i].domain>>
                  \in Range(file.items)

\* an allocation has returned with blocks assigned before it
SavedSeveralBlocks ==
    /\ response.detail = "new"
    /\ response.status = 200
    /\ Len(file.items) >= 2

\* C14: a restart after completed calls loads the map and the set the
\* process had when it stopped; with no file it loads the empty map and the
\* empty set.
RestartRoundTrip ==
    [][(response'.op = "restart")
          => /\ response'.status = 0
             /\ coordinates_map' = coordinates_map
             /\ assigned_domains' = assigned_domains
             /\ ~file.exists =>
                    (coordinates_map' = <<>> /\ assigned_domains' = {})]_vars

\* a restart has loaded two blocks
ReloadedTwoBlocks ==
    /\ response.op = "restart"
    /\ Len(coordinates_map) >= 2
    /\ Cardinality(assigned_domains) >= 2

\* C17: with 0,0 unassigned and google.com not in the domain list, /seed
\* answers 400 for the missing seed domain, not the failure of a query, and
\* leaves the map, the set and the file as they were.
UnknownSeedRefused ==
    [][(/\ response'.op = "seed"
        /\ ~HasKey(coordinates_map, FormatKey(0, 0))
        /\ seed_domain \notin Range(domains))
          => /\ response'.status = 400
             /\ response'.detail = "seed_not_found"
             /\ response'.domain = NoDomain
             /\ RegistryUnchanged]_vars

\* /seed was refused for the missing seed domain
SeedNotFound ==
    /\ response.op = "seed"
    /\ response.detail = "seed_not_found"
    /\ seed_domain \notin Range(domains)
    /\ ~HasKey(coordinates_map, FormatKey(0, 0))

\* C19: the domain a /coordinates call assigns is one of the top_n_default
\* domains of the store that rank nearest to the anchor's domain among those
\* that are neither the anchor's domain nor assigned; so it differs from the
\* anchor's domain and from every domain assigned before the call.
Place(row, d) ==
    CHOOSE p \in 1..Len(row) :
        /\ domains[row[p]] = d
        /\ \A q \in 1..(p - 1) : domains[row[q]] # d

NearestEligible(anchor_domain, assigned) ==
    LET row == nn_model[DomainToIndex(domains, anchor_domain)]
        eligible == {d \in Range(domains) :
                        d # anchor_domain /\ d \notin assigned}
    IN  {d \in eligible :
            Cardinality({e \in eligible : Place(row, e) < Place(row, d)})
                < top_n_default}

AssignedFromNearest ==
    [][(response'.op = "coordinates" /\ response'.detail = "new")
          => LET anchor_domain == Get(coordinates_map, response'.nearest)
             IN  /\ response'.domain
                        \in NearestEligible(anchor_domain, assigned_domains)
                 /\ response'.domain # anchor_domain
                 /\ response'.domain \notin assigned_domains
                 /\ Get(coordinates_map', response'.key)
                        = response'.domain]_vars

\* a /coordinates call has assigned a domain, and more domains than
\* top_n_default were neither the anchor's nor assigned
AssignedOneOfNearest ==
    /\ response.op = "coordinates"
    /\ response.detail = "new"
    /\ Cardinality(Range(domains) \ (assigned_domains \ {response.domain}))
          > top_n_default

\* C20: when the neighbour query raises, the call fails with the error, no
\* domain is returned, and the map, the set and the file are as they were.
QueryFailurePropagates ==
    [][(response'.detail = "error")
          => /\ response'.status = 500
             /\ response'.domain = NoDomain
             /\ RegistryUnchanged]_vars

\* the query of a call has raised, with blocks assigned
QueryRaised ==
    /\ response.op \in {"seed", "coordinates"}
    /\ response.detail = "error"
    /\ response.status = 500

\* C24: a /seed call that finds 0,0 assigned returns the domain at 0,0 and
\* leaves the map, the set and the file as they were, whether or not
\* google.com is in the domain list.
SeedReturnsAssigned ==
    [][(/\ response'.op = "seed"
        /\ HasKey(coordinates_map, FormatKey(0, 0)))
          => /\ response'.status = 200
             /\ response'.domain = Get(coordinates_map, FormatKey(0, 0))
             /\ RegistryUnchanged]_vars

\* C25: a /coordinates call for an assigned coordinate returns the stored
\* domain without a search for the anchor or a query, and leaves the map,
\* the set and the file as they were, whatever the source coordinate.
AssignedIsRead ==
    [][(/\ response'.op = "coordinates"
        /\ HasKey(coordinates_map, response'.key))
          => /\ response'.status = 200
             /\ response'.detail = "existing"
             /\ response'.domain = Get(coordinates_map, response'.key)
             /\ response'.nearest = NoKey
             /\ RegistryUnchanged]_vars

\* a /coordinates call has read a coordinate that is not the nearest one to
\* every source
ReadAssigned ==
    /\ response.op = "coordinates"
    /\ response.detail = "existing"
    /\ Len(coordinates_map) >= 2
    /\ response.key = coordinates_map[Len(coordinates_map)].key

\* C26: a successful allocation adds the one entry target -> selected to
\* the map and the one element selected to the set; every other coordinate
\* keeps its domain, and the map and the set have the same size.
AllocationAddsOne ==
    [][(response'.detail = "new")
          => /\ ~HasKey(coordinates_map, response'.key)
             /\ response'.domain \notin assigned_domains
             /\ coordinates_map' =
                    Append(coordinates_map,
                           [key |-> response'.key,
                            domain |-> response'.domain])
             /\ assigned_domains' =
                    assigned_domains \cup {response'.domain}
             /\ Len(coordinates_map') = Len(coordinates_map) + 1
             /\ Cardinality(assigned_domains')
                    = Cardinality(assigned_domains) + 1
             /\ Len(coordinates_map') = Cardinality(assigned_domains')]_vars

\* an allocation has added a block to a registry of at least one block
AddedOneMore ==
    /\ response.detail = "new"
    /\ Len(coordinates_map) >= 2
    /\ coordinates_map[Len(coordinates_map)].domain = response.domain

\* C27: from the empty registry the first entry is made by /seed at 0,0,
\* never by /coordinates, and the registry is empty or holds the key 0,0.
FirstBlockBySeed ==
    [][/\ coordinates_map' = <<>>
          \/ HasKey(coordinates_map', FormatKey(0, 0))
       /\ (coordinates_map = <<>> /\ coordinates_map' # <<>>)
             => /\ response'.op = "seed"
                /\ Keys(coordinates_map') = <<FormatKey(0, 0)>>]_vars

\* /seed has made the first entry
SeedMadeFirst ==
    /\ response.op = "seed"
    /\ response.detail = "new"
    /\ Keys(coordinates_map) = <<FormatKey(0, 0)>>

\* C28: with pairwise distinct domains the registry never holds more than
\* max(0, N - 5) assignments, and once more than N - 6 domains are assigned
\* every call for an unassigned coordinate fails and changes nothing.
DistinctDomains ==
    \A i, j \in 1..Len(domains) : domains[i] = domains[j] => i = j

AssignmentsBounded ==
    [][DistinctDomains
          => /\ Len(coordinates_map') <=
                    (IF Len(domains) > top_n_default
                     THEN Len(domains) - top_n_default ELSE 0)
             /\ (/\ Cardinality(assigned_domains)
                        > Len(domains) - (top_n_default + 1)
                 /\ response'.op \in {"seed", "coordinates"}
                 /\ ~HasKey(coordinates_map, response'.key))
                   => /\ response'.status # 200
                      /\ response'.domain = NoDomain
                      /\ RegistryUnchanged]_vars

\* the registry is full and a call for an unassigned coordinate has failed
\* at the query
RegistryFull ==
    /\ DistinctDomains
    /\ Len(coordinates_map) = Len(domains) - top_n_default
    /\ response.op = "coordinates"
    /\ response.detail = "error"

\* C29: for every source coordinate, the anchor chosen from the registry a
\* restart has loaded is the anchor chosen from the registry before the
\* restart, also with several coordinates at the least distance.
AnchorSurvivesRestart ==
    [][(response'.op = "restart")
          => \A source_x \in Xs, source_y \in Ys :
                NearestBlockKey(coordinates_map', source_x, source_y)
                   = NearestBlockKey(coordinates_map, source_x, source_y)]_vars

\* a restart has loaded two blocks at the same distance from some source
ReloadedTie ==
    /\ response.op = "restart"
    /\ \E source_x \in Xs, source_y \in Ys :
          \E i, j \in 1..Len(coordinates_map) :
             /\ i < j
             /\ coordinates_map[i].key
                   = NearestBlockKey(coordinates_map, source_x, source_y)
             /\ Distance(coordinates_map[i].key, <<source_x, source_y>>)
                   = Distance(coordinates_map[j].key, <<source_x, source_y>>)

(***************************************************************************)
(* Properties of _get_related_embeddings.                                  *)
(***************************************************************************)
\* C9: the list returned holds no input domain, no domain of
\* assigned_domains, and no domain twice.
RelatedExcludes ==
    (related.called /\ related.ok) =>
        /\ Range(related.list) \cap Range(related.input_domains) = {}
        /\ Range(related.list) \cap assigned_domains = {}
        /\ \A i, j \in 1..Len(related.list) :
              related.list[i] = related.list[j] => i = j

\* a list of several domains was returned, and an assigned domain was among
\* the neighbours the index gave for the first input domain
RelatedSkippedAssigned ==
    /\ related.called /\ related.ok
    /\ Len(related.list) >= 2
    /\ LET nb == QueryNeighbors(related.input_domains, related.top_n,
                                domains, nn_model,
                                Cardinality(assigned_domains))
       IN  \E j \in 1..Len(nb.rows[1]) :
              domains[nb.rows[1][j]] \in assigned_domains

\* C10: the list returned is no longer than top_n.
RelatedAtMostTopN ==
    (related.called /\ related.ok) => Len(related.list) <= related.top_n

\* C12: when fewer than top_n domains of the store are neither input
\* domains nor assigned, a call with input domains of the store does not
\* fail: it returns a list of such domains, possibly empty.
EligibleDomains ==
    {d \in Range(domains) :
        d \notin Range(related.input_domains) /\ d \notin assigned_domains}

ShortStoreReturnsFound ==
    (/\ related.called
     /\ Range(related.input_domains) \subseteq Range(domains)
     /\ Cardinality(EligibleDomains) < related.top_n)
        => /\ related.ok
           /\ Range(related.list) \subseteq EligibleDomains

\* C23: for one input domain of a list of pairwise distinct domains, a call
\* whose query the index can serve returns exactly top_n domains.
SingleSeedServed ==
    /\ related.called
    /\ Len(related.input_domains) = 1
    /\ related.input_domains[1] \in Range(domains)
    /\ DistinctDomains
    /\ related.top_n + 1 + Cardinality(assigned_domains) <= Len(domains)

OverFetchExact ==
    SingleSeedServed => /\ related.ok
                        /\ Len(related.list) = related.top_n

(***************************************************************************)
(* Properties of the executions with failures of the storage and of the    *)
(* process.                                                                *)
(***************************************************************************)
\* C15: a domain that a call returns for a coordinate is in the file: an
\* assignment whose write failed is not kept and not returned later.
ObservedIsDurable ==
    (response.status = 200) =>
        /\ file.exists /\ file.valid
        /\ <<response.key, response.domain>> \in Range(file.items)

\* C16: the restart after a process died in a call loads a registry the
\* process had after some completed call: the map it had when it died, or a
\* part of it up to an earlier assignment.
IsPrefix(a, b) ==
    /\ Len(a) <= Len(b)
    /\ \A i \in 1..Len(a) : a[i] = b[i]

CrashKeepsPersisted ==
    [][(response.detail = "crashed" /\ response'.op = "restart")
          => /\ response'.status = 0
             /\ IsPrefix(coordinates_map', coordinates_map)
             /\ assigned_domains' = Values(coordinates_map')]_vars

(***************************************************************************)
(* Properties of the concurrent executions.                                *)
(***************************************************************************)
\* C4: of two /coordinates calls for one target that both return a domain,
\* at most one has allocated it and both return the same domain.
SameTargetOneAllocation ==
    \A t, u \in ThreadIds :
        (/\ t # u
         /\ threads[t].pc = "done" /\ threads[u].pc = "done"
         /\ threads[t].op = "coordinates" /\ threads[u].op = "coordinates"
         /\ threads[t].key = threads[u].key
         /\ threads[t].status = 200 /\ threads[u].status = 200)
            => /\ threads[t].domain = threads[u].domain
               /\ ~(threads[t].detail = "new" /\ threads[u].detail = "new")

\* C18: the write of line 117 does not overwrite: when the target is in the
\* map already, or the selected domain is assigned already, the call fails
\* and the map and the set stay as they were.
WriteNeverOverwrites ==
    [][\A t \in ThreadIds :
          (/\ threads[t].pc = "l117"
           /\ threads'[t].pc # "l117"
           /\ threads[t].op = "coordinates"
           /\ \/ HasKey(coordinates_map, threads[t].key)
              \/ threads[t].selected_domain \in assigned_domains)
             => /\ threads'[t].pc = "done"
                /\ threads'[t].status # 200
                /\ coordinates_map' = coordinates_map
                /\ assigned_domains' = assigned_domains]_vars

AllReturned == \A t \in ThreadIds : threads[t].pc \in {"idle", "done"}

\* C21: two concurrent /coordinates calls that have allocated for different
\* targets have not assigned the same domain, so the registry they leave has
\* no domain at two coordinates.
ConcurrentDomainsUnique ==
    \A t, u \in ThreadIds :
        (/\ t # u
         /\ threads[t].pc = "done" /\ threads[u].pc = "done"
         /\ threads[t].op = "coordinates" /\ threads[u].op = "coordinates"
         /\ threads[t].detail = "new" /\ threads[u].detail = "new"
         /\ threads[t].key # threads[u].key)
            => /\ threads[t].domain # threads[u].domain
               /\ \A i, j \in 1..Len(coordinates_map) :
                     coordinates_map[i].domain = coordinates_map[j].domain
                        => i = j

\* C22: once the concurrent calls have returned, the file holds the map of
\* the process: a restart would load every assignment a caller received.
ConcurrentFileHoldsMap ==
    AllReturned =>
        /\ file.exists => file.valid
        /\ LoadMap(file) = coordinates_map

=============================================================================
